---- MODULE Spec2Model ----
(***************************************************************************)
(* Port Auditor Pro: the batch verification orchestrator of src/App.tsx   *)
(* (parseInput, clearAll, processPorts, handleGenerateSummary) and the     *)
(* oracle client of src/services/geminiService.ts (matchPortsBatch,        *)
(* generateChineseSummary).                                                *)
(*                                                                         *)
(* processPorts is an async function: it runs synchronously up to its      *)
(* `await matchPortsBatch(...)`, where other handlers (clearAll) may run,  *)
(* and resumes when the promise settles.  The model keeps the position of  *)
(* the function in pc and splits its body at the statements of the loop:   *)
(*   idle -> mark -> await -> (mark | idle).                               *)
(* User handlers are enabled only while pc is idle or await, the only      *)
(* points where the event loop can run them.                               *)
(***************************************************************************)
EXTENDS Integers, Sequences, FiniteSets, TLC

(* ------------------------------ bounds -------------------------------- *)
MaxLedger == 6      \* most records the ledger holds
MaxAppends == 2     \* most times the caller adds names to the queue
MaxFill == 4        \* filler lines after the first name of a long textarea input
MaxChunks == 5      \* most grounding chunks attached to one oracle response
MaxSummaryCalls == 1 \* most summary calls outstanding at the same time

(* ------------------------- program constants -------------------------- *)
BATCH_SIZE == 5
SourceLimit == 3

(* ------------------------------ values -------------------------------- *)
Names == {"a", "A", "b"}

\* String.prototype.toLowerCase on the names of the model
toLowerCase(s) == IF s = "A" THEN "a" ELSE s

\* A raw textarea line: a name with optional surrounding blanks, or a blank line.
\* String.prototype.trim removes the surrounding blanks.
RawLines == [body : Names \cup {""}, pad : BOOLEAN]
trim(l) == l.body

QuerySuffix == " 5-digit port code, Chinese port name and country"

FallbackRemark == "verification failed"
EmptyResponseMessage == "Empty response from AI"
SyntaxErrorMessage == "Unexpected token in JSON"
DefaultTitle == "Source"

\* the texts of the summary path: the alerts of handleGenerateSummary, the
\* strings generateChineseSummary returns by itself, the head of its prompt,
\* and the report the oracle writes
NoCompletedAlert == "match the ports first"
SummaryFailedAlert == "summary generation failed"
NothingToSummarize == "no completed port data"
SummaryFallback == "cannot generate a summary"
PromptHead == "summarise these verified ports:"
OracleReport == "report"

\* what a step reported: nothing yet
NoEvent == [what |-> "none", resp |-> "", value |-> ""]

\* A fresh record, as parseInput builds it (sources is left undefined: no sources)
NewPort(name) ==
  [originalName |-> name,
   querySentence |-> name \o QuerySuffix,
   portCode |-> "",
   chineseName |-> "",
   countryName |-> "",
   remarks |-> "",
   status |-> "pending",
   sources |-> << >>]

(* ------------------------------ state --------------------------------- *)
VARIABLES
  ports,          \* App.tsx:33  useState<PortData[]>: the ledger
  isProcessing,   \* App.tsx:34  useState(false)
  summary,        \* App.tsx:36  useState<string | null>: "null" or the text
  progress,       \* App.tsx:37  useState({current, total})
  pc,             \* App.tsx:78-127  position of processPorts: idle, mark, await
  pendingPorts,   \* App.tsx:79  const pendingPorts of the running processPorts
  i,              \* App.tsx:89  loop variable of processPorts
  completedCount, \* App.tsx:87  let completedCount of the running processPorts
  runStart,       \* history: the ledger the running processPorts closed over
  calls,          \* history: the name lists passed to matchPortsBatch in this run
  outcome,        \* history: how the last oracle call settled
  cleared,        \* history: clearAll ran during this run
  appends,        \* history: how many times parseInput ran
  isSummarizing,  \* App.tsx:35  useState(false)
  summaryCalls,   \* App.tsx:136  number of outstanding calls of generateChineseSummary
  event           \* history: what the step into this state reported to its caller
                  \*   (an alert, a prompt sent, a value returned, an error raised)

vars == <<ports, isProcessing, summary, progress, pc, pendingPorts, i,
          completedCount, runStart, calls, outcome, cleared, appends,
          isSummarizing, summaryCalls, event>>


\* a step that is not of the summary path and reports nothing
NoSummaryStep ==
  /\ event' = NoEvent
  /\ UNCHANGED <<isSummarizing, summaryCalls>>

(* --------------------------- array helpers ---------------------------- *)
Min(a, b) == IF a < b THEN a ELSE b

\* Array.prototype.slice(from, to) with 0-based, end-exclusive, clipped bounds
slice(s, from, to) == SubSeq(s, from + 1, Min(to, Len(s)))

\* Array.prototype.includes
includes(s, x) == \E k \in 1..Len(s) : s[k] = x

\* all sequences over S of length 0..n
SeqUpTo(S, n) == UNION {[1..k -> S] : k \in 0..n}

(* ------------------------- the oracle's answers ------------------------ *)
\* One match of the oracle's JSON array (GeminiPortResponse without sources)
\* (the oracle's answer for a name is a function of the name as it spells it)
Entry(name) ==
  [originalName |-> name,
   portCode |-> "code-" \o name,
   chineseName |-> "zh-" \o name,
   countryName |-> "country-" \o name,
   remarks |-> "note-" \o name]

Entries == {Entry(n) : n \in Names}

\* The JSON arrays the oracle may return: any of the entries, each at most once,
\* in any order
Payloads ==
  {p \in SeqUpTo(Entries, Cardinality(Entries)) :
     \A j, k \in 1..Len(p) : j # k => p[j] # p[k]}

\* groundingChunks: n chunks, of which the first has no web.uri and the third
\* no web.title
Chunk(k) ==
  [hasUri |-> k # 1,
   uri |-> "u" \o ToString(k),
   title |-> IF k = 3 THEN "" ELSE "t" \o ToString(k)]

ChunkList(n) == [k \in 1..n |-> Chunk(k)]

\* the oracle attaches two chunks for every match it returns, MaxChunks at most
ChunksFor(payload) ==
  ChunkList(IF 2 * Len(payload) < MaxChunks THEN 2 * Len(payload) ELSE MaxChunks)

\* What ai.models.generateContent does: it rejects (here with an error that has
\* no message; the errors of the parse block have one), or resolves with a
\* response whose text is empty, is not JSON, or is a JSON array
Responses ==
  [kind : {"reject"}, message : {""}, payload : {<< >>}, chunks : {<< >>}]
  \cup
  [kind : {"empty", "garbage"}, message : {""}, payload : {<< >>},
   chunks : {ChunkList(MaxChunks)}]
  \cup
  {[kind |-> "json", message |-> "", payload |-> p, chunks |-> ChunksFor(p)] :
     p \in Payloads}

(* --------------------------- matchPortsBatch --------------------------- *)
\* the sources collected from the grounding chunks (geminiService.ts 67-78)
RECURSIVE collectSources(_)
collectSources(chunks) ==
  IF chunks = << >> THEN << >>
  ELSE LET c == Head(chunks)
           rest == collectSources(Tail(chunks))
       IN  IF c.hasUri
           THEN <<[uri |-> c.uri,
                   title |-> IF c.title # "" THEN c.title ELSE DefaultTitle]>> \o rest
           ELSE rest

\* (a variant that forgets to truncate the sources)
matchPortsBatchNoLimit(resp) ==
  IF resp.kind = "reject" THEN [ok |-> FALSE, message |-> resp.message, results |-> << >>]
  ELSE IF resp.kind = "empty"
    THEN [ok |-> FALSE, message |-> EmptyResponseMessage, results |-> << >>]
  ELSE IF resp.kind = "garbage"
    THEN [ok |-> FALSE, message |-> SyntaxErrorMessage, results |-> << >>]
  ELSE [ok |-> TRUE, message |-> "",
        results |-> [k \in 1..Len(resp.payload) |->
                       [originalName |-> resp.payload[k].originalName,
                        portCode |-> resp.payload[k].portCode,
                        chineseName |-> resp.payload[k].chineseName,
                        countryName |-> resp.payload[k].countryName,
                        remarks |-> resp.payload[k].remarks,
                        sources |-> collectSources(resp.chunks)]]]

\* (a variant that takes an empty or unparseable text for an empty list)
matchPortsBatchLenient(resp) ==
  IF resp.kind = "reject" THEN [ok |-> FALSE, message |-> resp.message, results |-> << >>]
  ELSE IF resp.kind \in {"empty", "garbage"}
    THEN [ok |-> TRUE, message |-> "", results |-> << >>]
  ELSE [ok |-> TRUE, message |-> "",
        results |-> [k \in 1..Len(resp.payload) |->
                       [originalName |-> resp.payload[k].originalName,
                        portCode |-> resp.payload[k].portCode,
                        chineseName |-> resp.payload[k].chineseName,
                        countryName |-> resp.payload[k].countryName,
                        remarks |-> resp.payload[k].remarks,
                        sources |-> slice(collectSources(resp.chunks), 0, SourceLimit)]]]

\* the settled promise of matchPortsBatch: ok with results, or a thrown message
matchPortsBatch(resp) ==
  IF resp.kind = "reject" THEN [ok |-> FALSE, message |-> resp.message, results |-> << >>]
  ELSE IF resp.kind = "empty"
    THEN [ok |-> FALSE, message |-> EmptyResponseMessage, results |-> << >>]
  ELSE IF resp.kind = "garbage"
    THEN [ok |-> FALSE, message |-> SyntaxErrorMessage, results |-> << >>]
  ELSE [ok |-> TRUE, message |-> "",
        results |-> [k \in 1..Len(resp.payload) |->
                       [originalName |-> resp.payload[k].originalName,
                        portCode |-> resp.payload[k].portCode,
                        chineseName |-> resp.payload[k].chineseName,
                        countryName |-> resp.payload[k].countryName,
                        remarks |-> resp.payload[k].remarks,
                        sources |-> slice(collectSources(resp.chunks), 0, SourceLimit)]]]

(* ----------------------------- processPorts ---------------------------- *)
\* (a variant that forgets the failed records)
EligibleOnlyPending(p) == p.status = "pending"

\* the filter of line 79
Eligible(p) == p.status = "pending" \/ p.status = "error"

totalToProcess == Len(pendingPorts)

batch == slice(pendingPorts, i, i + BATCH_SIZE)

batchNames == [k \in 1..Len(batch) |-> batch[k].originalName]

\* setPorts(prev => prev.map(...)) of line 93: mark the batch in flight
MarkProcessing(prev, names) ==
  [k \in 1..Len(prev) |->
     IF includes(names, prev[k].originalName)
     THEN [prev[k] EXCEPT !.status = "processing"]
     ELSE prev[k]]

\* (a variant that takes the last matching entry)
findLast(results, p) ==
  LET hits == {k \in 1..Len(results) :
                 toLowerCase(results[k].originalName) = toLowerCase(p.originalName)}
  IN  IF hits = {} THEN 0 ELSE CHOOSE k \in hits : \A h \in hits : k >= h

\* results.find(r => r.originalName.toLowerCase() === p.originalName.toLowerCase()):
\* the index of the first such entry, 0 when there is none
find(results, p) ==
  LET hits == {k \in 1..Len(results) :
                 toLowerCase(results[k].originalName) = toLowerCase(p.originalName)}
  IN  IF hits = {} THEN 0 ELSE CHOOSE k \in hits : \A h \in hits : k <= h

\* (a variant that spreads the whole match over the record)
ReconcileSpreadMatch(prev, results) ==
  [k \in 1..Len(prev) |->
     LET m == find(results, prev[k])
     IN  IF m # 0
         THEN [prev[k] EXCEPT !.originalName = results[m].originalName,
                              !.portCode = results[m].portCode,
                              !.chineseName = results[m].chineseName,
                              !.countryName = results[m].countryName,
                              !.remarks = results[m].remarks,
                              !.sources = results[m].sources,
                              !.status = "completed"]
         ELSE prev[k]]

\* (a variant that marks the records without a match as failed)
ReconcileFailUnmatched(prev, results) ==
  [k \in 1..Len(prev) |->
     LET m == find(results, prev[k])
     IN  IF m # 0
         THEN [prev[k] EXCEPT !.portCode = results[m].portCode,
                              !.chineseName = results[m].chineseName,
                              !.countryName = results[m].countryName,
                              !.remarks = results[m].remarks,
                              !.sources = results[m].sources,
                              !.status = "completed"]
         ELSE IF prev[k].status = "processing"
         THEN [prev[k] EXCEPT !.status = "error", !.remarks = "no match returned"]
         ELSE prev[k]]

\* setPorts(prev => prev.map(...)) of line 100: reconcile the oracle's results
Reconcile(prev, results) ==
  [k \in 1..Len(prev) |->
     LET m == find(results, prev[k])
     IN  IF m # 0
         THEN [prev[k] EXCEPT !.portCode = results[m].portCode,
                              !.chineseName = results[m].chineseName,
                              !.countryName = results[m].countryName,
                              !.remarks = results[m].remarks,
                              !.sources = results[m].sources,
                              !.status = "completed"]
         ELSE prev[k]]

\* (a variant that forgets the fallback of an empty message)
FailureReasonNoFallback(message) == message

\* error?.message || fallback
FailureReason(message) == IF message # "" THEN message ELSE FallbackRemark

\* setPorts(prev => prev.map(...)) of line 117: mark the batch failed
MarkError(prev, names, message) ==
  [k \in 1..Len(prev) |->
     IF includes(names, prev[k].originalName)
     THEN [prev[k] EXCEPT !.status = "error", !.remarks = FailureReason(message)]
     ELSE prev[k]]

(* ------------------------------- Init --------------------------------- *)
Init ==
  /\ ports = << >>
  /\ isProcessing = FALSE
  /\ summary = "null"
  /\ progress = [current |-> 0, total |-> 0]
  /\ pc = "idle"
  /\ pendingPorts = << >>
  /\ i = 0
  /\ completedCount = 0
  /\ runStart = << >>
  /\ calls = << >>
  /\ outcome = "none"
  /\ cleared = FALSE
  /\ appends = 0
  /\ isSummarizing = FALSE
  /\ summaryCalls = 0
  /\ event = NoEvent

(* ------------------------------ actions ------------------------------- *)
\* What the caller types into the textarea: one name, or a name followed by
\* MaxFill lines of a filler name; a padded input has blanks around the first
\* name and a blank line before it
Filler == "b"

InputText(head, fill, pad) ==
  (IF pad THEN <<[body |-> "", pad |-> TRUE]>> ELSE << >>)
  \o <<[body |-> head, pad |-> pad]>>
  \o [k \in 1..fill |-> [body |-> Filler, pad |-> FALSE]]

InputTexts ==
  {InputText(h, f, p) : h \in Names \ {Filler}, f \in {0, MaxFill}, p \in BOOLEAN}

\* the lines of the textarea that survive .map(trim).filter(length > 0)
RECURSIVE nonBlankLines(_)
nonBlankLines(raw) ==
  IF raw = << >> THEN << >>
  ELSE IF trim(Head(raw)) # "" THEN <<trim(Head(raw))>> \o nonBlankLines(Tail(raw))
  ELSE nonBlankLines(Tail(raw))

\* the "add to queue" button: disabled={!inputRaw.trim() || isProcessing}
ParseInputEnabled(raw) == nonBlankLines(raw) # << >> /\ ~isProcessing

ParseInput(raw) ==
  /\ pc = "idle"
  /\ ParseInputEnabled(raw)
  /\ Len(ports) + Len(nonBlankLines(raw)) <= MaxLedger
  /\ appends < MaxAppends
  /\ appends' = appends + 1
  /\ ports' = ports \o [k \in 1..Len(nonBlankLines(raw)) |-> NewPort(nonBlankLines(raw)[k])]
  /\ UNCHANGED <<isProcessing, summary, progress, pc, pendingPorts, i,
                 completedCount, runStart, calls, outcome, cleared>>
  /\ NoSummaryStep

\* the "clear" button has no disabled guard; the confirm dialog is answered yes
ClearAll ==
  /\ pc \in {"idle", "await"}
  /\ ports' = << >>
  /\ summary' = "null"
  /\ progress' = [current |-> 0, total |-> 0]
  /\ cleared' = (pc = "await")
  /\ UNCHANGED <<isProcessing, pc, pendingPorts, i, completedCount, runStart,
                 calls, outcome, appends>>
  /\ NoSummaryStep

\* (a variant whose button forgets the run in progress)
RunEnabledWhileBusy == \E k \in 1..Len(ports) : ports[k].status = "pending"

\* the "verify" button:
\* disabled={isProcessing || ports.filter(p => p.status === 'pending').length === 0}
RunEnabled == ~isProcessing /\ \E k \in 1..Len(ports) : ports[k].status = "pending"

\* processPorts up to the first iteration of its loop (lines 79-89): the early
\* return of line 80, or the start of a run
processPortsStart ==
  IF SelectSeq(ports, Eligible) = << >>
  THEN /\ event' = [what |-> "run returned", resp |-> "", value |-> ""]
       /\ UNCHANGED <<ports, isProcessing, summary, progress, pc, pendingPorts, i,
                      completedCount, runStart, calls, outcome, cleared, appends,
                      isSummarizing, summaryCalls>>
  ELSE /\ pendingPorts' = SelectSeq(ports, Eligible)
       /\ isProcessing' = TRUE
       /\ summary' = "null"
       /\ progress' = [current |-> 0, total |-> Len(SelectSeq(ports, Eligible))]
       /\ completedCount' = 0
       /\ i' = 0
       /\ pc' = "mark"
       /\ runStart' = ports
       /\ calls' = << >>
       /\ outcome' = "none"
       /\ cleared' = FALSE
       /\ UNCHANGED <<ports, appends>>
       /\ NoSummaryStep

\* the "verify" button is pressed
StartRun ==
  /\ pc = "idle"
  /\ RunEnabled
  /\ processPortsStart

\* lines 90-98: slice the batch, mark it in flight, call the oracle
MarkBatch ==
  /\ pc = "mark"
  /\ ports' = MarkProcessing(ports, batchNames)
  /\ calls' = Append(calls, batchNames)
  /\ pc' = "await"
  /\ UNCHANGED <<isProcessing, summary, progress, pendingPorts, i,
                 completedCount, runStart, outcome, cleared, appends>>
  /\ NoSummaryStep

\* (a variant that counts a batch only when its call succeeded)
AdvanceOnSuccessOnly ==
  /\ completedCount' = completedCount + (IF outcome' = "ok" THEN Len(batch) ELSE 0)
  /\ progress' = [progress EXCEPT
                    !.current = completedCount + (IF outcome' = "ok" THEN Len(batch) ELSE 0)]
  /\ IF i + BATCH_SIZE < totalToProcess
     THEN /\ i' = i + BATCH_SIZE
          /\ pc' = "mark"
          /\ UNCHANGED <<isProcessing, pendingPorts, runStart, calls, cleared>>
     ELSE /\ isProcessing' = FALSE
          /\ pc' = "idle"
          /\ i' = 0
          /\ pendingPorts' = << >>
          /\ runStart' = << >>
          /\ calls' = << >>
          /\ cleared' = FALSE
  /\ UNCHANGED <<summary, appends>>
  /\ NoSummaryStep

\* (a variant that gives the run up when a batch has failed)
AdvanceAbortOnFailure ==
  /\ completedCount' = completedCount + Len(batch)
  /\ progress' = [progress EXCEPT !.current = completedCount + Len(batch)]
  /\ IF i + BATCH_SIZE < totalToProcess /\ outcome' # "failed"
     THEN /\ i' = i + BATCH_SIZE
          /\ pc' = "mark"
          /\ UNCHANGED <<isProcessing, pendingPorts, runStart, calls, cleared>>
     ELSE /\ isProcessing' = FALSE
          /\ pc' = "idle"
          /\ i' = 0
          /\ pendingPorts' = << >>
          /\ runStart' = << >>
          /\ calls' = << >>
          /\ cleared' = FALSE
  /\ UNCHANGED <<summary, appends>>
  /\ NoSummaryStep

\* lines 122-126 and the loop header, after the try/catch of a batch: advance
\* the progress, then go on to the next batch or return
Advance ==
  /\ completedCount' = completedCount + Len(batch)
  /\ progress' = [progress EXCEPT !.current = completedCount + Len(batch)]
  /\ IF i + BATCH_SIZE < totalToProcess
     THEN /\ i' = i + BATCH_SIZE
          /\ pc' = "mark"
          /\ UNCHANGED <<isProcessing, pendingPorts, runStart, calls, cleared>>
     ELSE /\ isProcessing' = FALSE
          /\ pc' = "idle"
          /\ i' = 0
          /\ pendingPorts' = << >>
          /\ runStart' = << >>
          /\ calls' = << >>
          /\ cleared' = FALSE
  /\ UNCHANGED <<summary, appends>>
  /\ NoSummaryStep

\* the ledger after the try branch (lines 98-114) for a response
SucceededLedger(resp) == Reconcile(ports, matchPortsBatch(resp).results)

\* the ledger after the catch branch (lines 115-120) for a response
FailedLedger(resp) == MarkError(ports, batchNames, matchPortsBatch(resp).message)

\* lines 98-114, then 122-126: the call resolved
BatchSucceeded(resp) ==
  /\ pc = "await"
  /\ matchPortsBatch(resp).ok
  /\ ports' = SucceededLedger(resp)
  /\ outcome' = "ok"
  /\ Advance

\* lines 115-120, then 122-126: the call threw
BatchFailed(resp) ==
  /\ pc = "await"
  /\ ~matchPortsBatch(resp).ok
  /\ ports' = FailedLedger(resp)
  /\ outcome' = "failed"
  /\ Advance

(* ----------------------- generateChineseSummary ------------------------ *)
IsCompleted(p) == p.status = "completed"

\* one line of dataString (geminiService.ts 102-103)
SummaryLine(p) ==
  p.originalName \o " -> " \o p.chineseName \o " (" \o p.portCode
    \o "), country: " \o p.countryName

\* Array.prototype.join
RECURSIVE join(_, _)
join(lines, sep) ==
  IF lines = << >> THEN ""
  ELSE IF Len(lines) = 1 THEN lines[1]
  ELSE lines[1] \o sep \o join(Tail(lines), sep)

\* (a variant that serializes every record of the ledger)
generateChineseSummaryAllRecords(ps) ==
  IF SelectSeq(ps, IsCompleted) = << >>
  THEN [asks |-> FALSE, text |-> NothingToSummarize, prompt |-> ""]
  ELSE [asks |-> TRUE, text |-> "",
        prompt |-> PromptHead \o "\n  "
                     \o join([k \in 1..Len(ps) |-> SummaryLine(ps[k])], "\n")]

\* generateChineseSummary up to its await (lines 95-109): it returns the fixed
\* text, or asks the oracle with the prompt built from the completed records
generateChineseSummary(ps) ==
  IF SelectSeq(ps, IsCompleted) = << >>
  THEN [asks |-> FALSE, text |-> NothingToSummarize, prompt |-> ""]
  ELSE [asks |-> TRUE, text |-> "",
        prompt |-> PromptHead \o "\n  "
                     \o join([k \in 1..Len(SelectSeq(ps, IsCompleted)) |->
                               SummaryLine(SelectSeq(ps, IsCompleted)[k])], "\n")]

\* what ai.models.generateContent does with a summary prompt: it rejects, or
\* resolves with an empty text or with a report
SummaryResponses == {"reject", "empty", "text"}

\* response.text || fallback (line 118)
SummaryResult(resp) == IF resp = "text" THEN OracleReport ELSE SummaryFallback

\* the "AI report" button (it has no disabled guard): handleGenerateSummary up
\* to the await of line 136
HandleGenerateSummary ==
  /\ pc \in {"idle", "await"}
  /\ summaryCalls < MaxSummaryCalls
  /\ IF SelectSeq(ports, IsCompleted) = << >>
     THEN /\ event' = [what |-> "alert", resp |-> "", value |-> NoCompletedAlert]
          /\ UNCHANGED <<summary, isSummarizing, summaryCalls>>
     ELSE IF generateChineseSummary(ports).asks
     THEN /\ isSummarizing' = TRUE
          /\ summaryCalls' = summaryCalls + 1
          /\ event' = [what |-> "asked", resp |-> "",
                        value |-> generateChineseSummary(ports).prompt]
          /\ UNCHANGED summary
     ELSE /\ summary' = generateChineseSummary(ports).text
          /\ isSummarizing' = FALSE
          /\ event' = [what |-> "returned", resp |-> "",
                        value |-> generateChineseSummary(ports).text]
          /\ UNCHANGED summaryCalls
  /\ UNCHANGED <<ports, isProcessing, progress, pc, pendingPorts, i,
                 completedCount, runStart, calls, outcome, cleared, appends>>

\* a summary call resolved: line 118, then lines 137 and 142
SummaryResolved(resp) ==
  /\ pc \in {"idle", "await"}
  /\ summaryCalls > 0
  /\ resp # "reject"
  /\ summaryCalls' = summaryCalls - 1
  /\ summary' = SummaryResult(resp)
  /\ isSummarizing' = FALSE
  /\ event' = [what |-> "returned", resp |-> resp, value |-> SummaryResult(resp)]
  /\ UNCHANGED <<ports, isProcessing, progress, pc, pendingPorts, i,
                 completedCount, runStart, calls, outcome, cleared, appends>>

\* a summary call rejected: generateChineseSummary has no handler for it, so
\* it rejects too, and lines 138-142 run
SummaryRejected(resp) ==
  /\ pc \in {"idle", "await"}
  /\ summaryCalls > 0
  /\ resp = "reject"
  /\ summaryCalls' = summaryCalls - 1
  /\ isSummarizing' = FALSE
  /\ event' = [what |-> "raised", resp |-> resp, value |-> SummaryFailedAlert]
  /\ UNCHANGED <<ports, isProcessing, summary, progress, pc, pendingPorts, i,
                 completedCount, runStart, calls, outcome, cleared, appends>>

\* the close button of the summary panel (line 292), shown while summary is set
CloseSummary ==
  /\ pc \in {"idle", "await"}
  /\ summary # "null"
  /\ summary' = "null"
  /\ UNCHANGED <<ports, isProcessing, progress, pc, pendingPorts, i,
                 completedCount, runStart, calls, outcome, cleared, appends>>
  /\ NoSummaryStep

Next ==
  \/ \E raw \in InputTexts : ParseInput(raw)
  \/ ClearAll
  \/ StartRun
  \/ MarkBatch
  \/ \E resp \in Responses : BatchSucceeded(resp)
  \/ \E resp \in Responses : BatchFailed(resp)

\* The verification path.  The summary path (NextSummary below) changes only
\* summary, isSummarizing, summaryCalls and event; SummarySpec runs both.
Spec == Init /\ [][Next]_vars

\* the summary path next to the verification path
NextSummary ==
  \/ HandleGenerateSummary
  \/ \E resp \in SummaryResponses : SummaryResolved(resp)
  \/ \E resp \in SummaryResponses : SummaryRejected(resp)
  \/ CloseSummary

SummarySpec == Init /\ [][Next \/ NextSummary]_vars

\* The two functions called as functions of the ledger (the contracts
\* run(ledger) and summarize(ledger)): processPorts on a ledger with nothing to
\* process, where the "verify" button is disabled, and generateChineseSummary
\* on any ledger, also one without a completed record, where
\* handleGenerateSummary returns before it calls it.  The step is the function
\* up to its first await or its return; the caller is not part of the model.
ProcessPortsCalled ==
  /\ pc = "idle"
  /\ SelectSeq(ports, Eligible) = << >>
  /\ processPortsStart

GenerateChineseSummaryCalled ==
  /\ pc \in {"idle", "await"}
  /\ IF generateChineseSummary(ports).asks
     THEN event' = [what |-> "asked", resp |-> "",
                    value |-> generateChineseSummary(ports).prompt]
     ELSE event' = [what |-> "returned", resp |-> "",
                    value |-> generateChineseSummary(ports).text]
  /\ UNCHANGED <<ports, isProcessing, summary, progress, pc, pendingPorts, i,
                 completedCount, runStart, calls, outcome, cleared, appends,
                 isSummarizing, summaryCalls>>

NextCalled ==
  \/ ProcessPortsCalled
  \/ GenerateChineseSummaryCalled

CallSpec == Init /\ [][Next \/ NextCalled]_vars

\* processPorts is a single async function: once the promise of its oracle call
\* settles, the event loop runs its continuation, and the statements up to the
\* next await run without interruption
FairSpec ==
  /\ Spec
  /\ WF_vars(MarkBatch)
  /\ WF_vars(\E resp \in Responses : BatchSucceeded(resp) \/ BatchFailed(resp))


(* ===================== the claims and their checks ===================== *)
\* Records are identified by their position in the ledger: positions are stable
\* while a run is active, because parseInput is disabled and clearAll empties
\* the ledger for the rest of the run.

\* positions of the records that were Pending or Failed when the run started
StartEligibleIdx ==
  {k \in 1..Len(runStart) : runStart[k].status \in {"pending", "error"}}

\* the place of an eligible position among the eligible positions, from 1
RankAtStart(k) == Cardinality({j \in StartEligibleIdx : j <= k})

\* positions of the records of the b-th batch of the run, b = 1, 2, ...
BatchIdx(b) ==
  {k \in StartEligibleIdx :
     (b - 1) * BATCH_SIZE < RankAtStart(k) /\ RankAtStart(k) <= b * BATCH_SIZE}

\* the batch whose oracle call is outstanding (the last one dispatched)
CurBatchIdx == BatchIdx(Len(calls))

\* the records of a set of positions that are still in the ledger
Present(idx) == idx \cap (1..Len(ports))

ResultFields(p) ==
  <<p.status, p.portCode, p.chineseName, p.countryName, p.remarks, p.sources>>

\* a step of the run that handles the settled oracle call of a batch: only
\* BatchSucceeded and BatchFailed leave pc = "await", and they record which
SettleStep == pc = "await" /\ pc' # "await"
FailedStep == SettleStep /\ outcome' = "failed"
SucceededStep == SettleStep /\ outcome' = "ok"

(* C1: a record that is Completed or InFlight when a run starts keeps its    *)
(* status, code, localizedName, countryName, remarks and sources at every    *)
(* step of that run, also in a ledger with several records of the same name. *)
C1_CompletedUntouched ==
  (pc # "idle" /\ ~cleared) =>
    \A k \in 1..Len(runStart) :
      runStart[k].status \in {"completed", "processing"} =>
        ResultFields(ports[k]) = ResultFields(runStart[k])

(* C2: batch isolation: when the oracle call for batch A fails, no record of *)
(* another batch B of the same run has its status or any field changed by    *)
(* the handling of that failure.                                             *)
C2_BatchIsolation ==
  [][FailedStep =>
       \A k \in Present(StartEligibleIdx \ CurBatchIdx) : ports'[k] = ports[k]]_vars


(* C3: when the oracle call for a batch fails, every record of that batch is *)
(* moved to Failed with a non-empty failure reason as its remarks, and its   *)
(* code, localizedName, countryName and sources keep their values.           *)
C3_FailureMarksBatch ==
  [][FailedStep =>
       \A k \in Present(CurBatchIdx) :
         /\ ports'[k].status = "error"
         /\ ports'[k].remarks # ""
         /\ ports'[k].portCode = ports[k].portCode
         /\ ports'[k].chineseName = ports[k].chineseName
         /\ ports'[k].countryName = ports[k].countryName
         /\ ports'[k].sources = ports[k].sources]_vars

\* a batch has failed on a call that threw without a message: its record is
\* Failed and carries the fallback reason
C3_Witness ==
  /\ outcome = "failed"
  /\ \E k \in 1..Len(ports) :
       ports[k].status = "error" /\ ports[k].remarks = FallbackRemark

(* C4: retry by re-run: whenever no run is active and the ledger holds a     *)
(* Failed record (even with no Pending record), the caller can start a new   *)
(* run, which dispatches the Failed records again.                           *)
C4_RetryAlwaysPossible ==
  (pc = "idle" /\ \E k \in 1..Len(ports) : ports[k].status = "error") => RunEnabled

C6_TerminalAtEnd ==
  [][(SettleStep /\ pc' = "idle") =>
       \A k \in Present(StartEligibleIdx) :
         ports'[k].status \in {"completed", "error"}]_vars


\* the entries of a response that name a record, ignoring letter case
Hits(resp, p) ==
  {e \in 1..Len(resp.payload) :
     toLowerCase(resp.payload[e].originalName) = toLowerCase(p.originalName)}

(* C7: when the oracle call for a batch succeeds, every record of the batch  *)
(* whose name equals, ignoring case, no name of the response stays InFlight  *)
(* with all other fields unchanged: it is not Failed and gets no error.      *)
C7_UnmatchedStayInFlight ==
  pc = "await" =>
    \A cur \in {Present(CurBatchIdx)} :
      \A resp \in Responses :
        matchPortsBatch(resp).ok =>
          \A after \in {SucceededLedger(resp)} :
            \A k \in cur :
              Hits(resp, ports[k]) = {} =>
                /\ after[k] = ports[k]
                /\ after[k].status = "processing"

\* a batch has succeeded and left one of its records InFlight, without remarks,
\* next to a completed one
C7_Witness ==
  /\ outcome = "ok"
  /\ pc = "idle"
  /\ \E j, k \in 1..Len(ports) :
       /\ ports[j].status = "processing" /\ ports[j].remarks = ""
       /\ ports[k].status = "completed"

(* C8: when the oracle call for a batch succeeds, each record of the batch   *)
(* whose name equals, ignoring case, the name of some response entry becomes *)
(* Completed with code, localizedName, countryName and remarks of the FIRST  *)
(* such entry in response order.                                             *)
C8_FirstMatchWins ==
  pc = "await" =>
    \A cur \in {Present(CurBatchIdx)} :
      \A resp \in Responses :
        matchPortsBatch(resp).ok =>
          \A after \in {SucceededLedger(resp)} :
            \A k \in cur :
              \A hits \in {Hits(resp, ports[k])} :
                hits # {} =>
                  \A first \in {e \in hits : \A h \in hits : e <= h} :
                    /\ after[k].status = "completed"
                    /\ after[k].portCode = resp.payload[first].portCode
                    /\ after[k].chineseName = resp.payload[first].chineseName
                    /\ after[k].countryName = resp.payload[first].countryName
                    /\ after[k].remarks = resp.payload[first].remarks

\* a record named "a" has been completed from the oracle's entry for "A"
C8_Witness ==
  /\ outcome = "ok"
  /\ \E k \in 1..Len(ports) :
       /\ ports[k].originalName = "a"
       /\ ports[k].status = "completed"
       /\ ports[k].portCode = Entry("A").portCode
       /\ ports[k].remarks = Entry("A").remarks

\* the sources a response carries: its chunks with a web.uri, in its order
CarriedSources(resp) ==
  LET idx == {j \in 1..Len(resp.chunks) : resp.chunks[j].hasUri}
      nth(m) == CHOOSE j \in idx : Cardinality({x \in idx : x <= j}) = m
  IN  [m \in 1..Cardinality(idx) |->
         [uri |-> resp.chunks[nth(m)].uri,
          title |-> IF resp.chunks[nth(m)].title = "" THEN DefaultTitle
                    ELSE resp.chunks[nth(m)].title]]

(* C9: every record has at most 3 sources in every reachable state; after a  *)
(* successful batch whose response carries n sources, every record matched   *)
(* in it holds exactly the first min(n,3) of them in the oracle's order,     *)
(* replacing its previous sources, so all of them hold the same list.        *)
C9_SourceTruncation ==
  /\ \A k \in 1..Len(ports) : Len(ports[k].sources) <= 3
  /\ pc = "await" =>
       \A resp \in Responses :
         matchPortsBatch(resp).ok =>
           \A carried \in {CarriedSources(resp)}, after \in {SucceededLedger(resp)} :
             \A kept \in {[m \in 1..(IF Len(carried) < 3 THEN Len(carried) ELSE 3)
                              |-> carried[m]]} :
               \A k \in 1..Len(ports) :
                 Hits(resp, ports[k]) # {} => after[k].sources = kept

\* two records completed in one batch hold the same three sources, the first
\* three with a uri that the response carried
C9_Witness ==
  \E j, k \in 1..Len(ports) :
    /\ j # k
    /\ ports[j].status = "completed" /\ ports[k].status = "completed"
    /\ ports[j].sources = ports[k].sources
    /\ Len(ports[k].sources) = 3
    /\ ports[k].sources[1].uri = "u2"
    /\ ports[k].sources[3].uri = "u4"

\* the names of the b-th batch of the run, in ledger order
ExpectedBatchNames(b) ==
  LET idx == BatchIdx(b)
      nth(m) == CHOOSE j \in idx : Cardinality({x \in idx : x <= j}) = m
  IN  [m \in 1..Cardinality(idx) |-> runStart[nth(m)].originalName]

(* C10: the records a run dispatches are exactly those Pending or Failed at  *)
(* run start, split in ledger order into consecutive batches of exactly 5    *)
(* (only the last may be smaller, none is empty), each in exactly one batch, *)
(* and each oracle call receives exactly the names of its batch, in order.   *)
C10_WorklistPartition ==
  /\ [](pc # "idle" =>
          /\ \A c \in 1..Len(calls) :
               /\ calls[c] = ExpectedBatchNames(c)
               /\ Len(calls[c]) >= 1
               /\ c < Len(calls) => Len(calls[c]) = BATCH_SIZE
          /\ (Len(calls) - 1) * BATCH_SIZE < Cardinality(StartEligibleIdx)
          /\ pc = "mark" => Len(calls) * BATCH_SIZE < Cardinality(StartEligibleIdx)
          /\ pc = "await" => Len(calls) >= 1)
  /\ [][(SettleStep /\ pc' = "idle") =>
          Len(calls) * BATCH_SIZE >= Cardinality(StartEligibleIdx)]_vars

\* the second call of a run of six eligible records, one of them a Failed
\* record of an earlier run, carries the one name left over by the first
C10_Witness ==
  /\ pc = "await"
  /\ Len(calls) = 2
  /\ Len(calls[1]) = BATCH_SIZE
  /\ Len(calls[2]) = 1
  /\ \E k \in StartEligibleIdx : runStart[k].status = "error"

\* positions of the records of the batches dispatched so far in this run
DispatchedIdx == UNION {BatchIdx(b) : b \in 1..Len(calls)}

(* C11: strictly sequential batches: at most one oracle call of a run is     *)
(* outstanding, and the records of batch k+1 are not marked InFlight, nor    *)
(* is its call issued, before the call of batch k has been handled.          *)
C11_SequentialBatches ==
  /\ pc = "mark" => completedCount = Len(calls) * BATCH_SIZE
  /\ pc = "await" =>
       /\ completedCount = (Len(calls) - 1) * BATCH_SIZE
       /\ \A k \in Present(StartEligibleIdx \ DispatchedIdx) :
            ports[k].status # "processing"

(* C12: failures never abort a run: after a failed batch every later batch   *)
(* is still marked InFlight and dispatched, and, when every oracle call      *)
(* settles, the run ends after the last batch with isProcessing cleared.     *)
C12_FailuresNeverAbort ==
  /\ [][FailedStep =>
          IF Len(calls) * BATCH_SIZE < Cardinality(StartEligibleIdx)
          THEN pc' = "mark" /\ isProcessing'
          ELSE pc' = "idle" /\ ~isProcessing']_vars
  /\ [][(pc = "mark" /\ pc' # "mark") =>
          /\ pc' = "await"
          /\ calls' = Append(calls, ExpectedBatchNames(Len(calls) + 1))
          /\ \A k \in Present(BatchIdx(Len(calls) + 1)) :
               ports'[k].status = "processing"]_vars
  /\ (pc = "mark" /\ outcome = "failed") ~> (pc = "await" /\ outcome = "failed")
  /\ (pc # "idle") ~> (pc = "idle" /\ ~isProcessing)

\* the first batch of a run has failed and the second one is in flight
C12_Witness ==
  /\ pc = "await"
  /\ Len(calls) = 2
  /\ outcome = "failed"
  /\ isProcessing
  /\ \E k \in BatchIdx(2) : k <= Len(ports) /\ ports[k].status = "processing"

StepBatchIdx == IF pc = "mark" THEN BatchIdx(Len(calls) + 1) ELSE CurBatchIdx

(* C14: duplicate names are independent records: the in-flight marking, the  *)
(* reconciliation and the failure marking of a batch change no record        *)
(* outside the batch that has the name of a record of the batch.             *)
C14_DuplicatesIndependent ==
  [][(pc \in {"mark", "await"} /\ pc' # pc) =>
       \A cur \in {Present(StepBatchIdx)} :
         \A k \in (1..Len(ports)) \ cur :
           (\E j \in cur : ports[j].originalName = ports[k].originalName) =>
             ports'[k] = ports[k]]_vars

(* C15: reconciliation scope: a successful response for a batch changes only *)
(* records of that batch; a record outside the batch whose name matches a    *)
(* response entry, ignoring case, is left unchanged.                         *)
C15_ReconcileScope ==
  pc = "await" =>
    \A resp \in Responses :
      matchPortsBatch(resp).ok =>
        \A after \in {SucceededLedger(resp)} :
          \A k \in (1..Len(ports)) \ CurBatchIdx : after[k] = ports[k]

(* C16: a response whose text is empty or cannot be parsed is handled as a   *)
(* failed call: every record of the batch becomes Failed with non-empty      *)
(* remarks, exactly as when the call rejects; it is never a success with no  *)
(* matches that leaves the records InFlight.                                 *)
C16_EmptyOrUnparsedFails ==
  pc = "await" =>
    \A resp \in Responses :
      resp.kind \in {"empty", "garbage"} =>
        /\ ~matchPortsBatch(resp).ok
        /\ matchPortsBatch(resp).message # ""
        /\ \A failed \in {FailedLedger(resp)} :
             /\ \A k \in Present(CurBatchIdx) :
                  failed[k].status = "error" /\ failed[k].remarks # ""
             /\ \A rej \in {r \in Responses : r.kind = "reject"} :
                  \A k \in 1..Len(ports) :
                    [failed[k] EXCEPT !.remarks = ""]
                      = [FailedLedger(rej)[k] EXCEPT !.remarks = ""]

\* one batch has failed on an empty text and another on a text that is not
\* JSON: their records are Failed with the two messages as remarks
C16_Witness ==
  /\ outcome = "failed"
  /\ \E j, k \in 1..Len(ports) :
       /\ ports[j].status = "error" /\ ports[j].remarks = EmptyResponseMessage
       /\ ports[k].status = "error" /\ ports[k].remarks = SyntaxErrorMessage

\* the prompt for the Completed records of the ledger, one line each, in
\* ledger order
ExpectedPrompt ==
  LET idx == {k \in 1..Len(ports) : ports[k].status = "completed"}
      nth(m) == CHOOSE j \in idx : Cardinality({x \in idx : x <= j}) = m
  IN  PromptHead \o "\n  "
        \o join([m \in 1..Cardinality(idx) |-> SummaryLine(ports[nth(m)])], "\n")

(* C17: summary short-circuit: on a ledger without a Completed record        *)
(* generateChineseSummary returns the fixed text and asks the oracle         *)
(* nothing; otherwise it asks about exactly the Completed records, one line  *)
(* each in ledger order, and about no record of another status.              *)
C17_SummaryShortCircuit ==
  [][(event'.what \in {"asked", "returned"} /\ event'.resp = "") =>
       IF \A k \in 1..Len(ports) : ports[k].status # "completed"
       THEN event' = [what |-> "returned", resp |-> "", value |-> NothingToSummarize]
       ELSE event' = [what |-> "asked", resp |-> "", value |-> ExpectedPrompt]]_vars

\* generateChineseSummary has returned the fixed text for a ledger that holds
\* records, none of them Completed
C17_Witness ==
  /\ event = [what |-> "returned", resp |-> "", value |-> NothingToSummarize]
  /\ \E k \in 1..Len(ports) : ports[k].status = "error"

(* C18: the summary path never raises: when the oracle's summary response is *)
(* empty, and when its summary call fails, the result is a fallback string   *)
(* instead of an error, and no ledger record is changed.                     *)
C18_SummaryNeverRaises ==
  [][event'.resp \in {"empty", "reject"} =>
       /\ event'.what = "returned"
       /\ event'.value = SummaryFallback
       /\ ports' = ports]_vars

\* the status changes a record may make
AllowedStatusChanges ==
  {<<"pending", "processing">>, <<"error", "processing">>,
   <<"processing", "completed">>, <<"processing", "error">>}

(* C19: status state machine: a record's status changes only along           *)
(* Pending->InFlight, Failed->InFlight, InFlight->Completed and              *)
(* InFlight->Failed; no record leaves Completed.                             *)
C19_StatusStateMachine ==
  [][\A k \in 1..Min(Len(ports), Len(ports')) :
       ports'[k].status # ports[k].status =>
         <<ports[k].status, ports'[k].status>> \in AllowedStatusChanges]_vars

(* C20: in every reachable state, also when clearAll runs while a run waits  *)
(* for an oracle call, 0 <= processedCount <= totalCount.                    *)
C20_ProgressBounds ==
  0 <= progress.current /\ progress.current <= progress.total

(* C21: at most one run is active: from the start of a run until its last    *)
(* batch has been handled the caller can neither start a second run nor      *)
(* append records to the ledger.                                             *)
C21_OneRunActive ==
  /\ [](pc # "idle" =>
          /\ isProcessing
          /\ ~RunEnabled
          /\ \A raw \in InputTexts : ~ParseInputEnabled(raw))
  /\ [](pc = "idle" => ~isProcessing)
  /\ [][pc # "idle" =>
          /\ Len(ports') <= Len(ports)
          /\ appends' = appends
          /\ pc' # "idle" => (pendingPorts' = pendingPorts /\ runStart' = runStart)]_vars

\* a run waits for the call of its first batch while the ledger holds a
\* Pending record of the second batch, which would enable the "verify" button
C21_Witness ==
  /\ pc = "await"
  /\ isProcessing
  /\ Len(calls) = 1
  /\ \E k \in 1..Len(ports) : ports[k].status = "pending"

\* the bodies of the lines of a textarea input that are not blank, in order
NamesTyped(raw) ==
  LET idx == {k \in 1..Len(raw) : raw[k].body # ""}
      nth(m) == CHOOSE j \in idx : Cardinality({x \in idx : x <= j}) = m
  IN  [m \in 1..Cardinality(idx) |-> raw[nth(m)].body]

(* C22: ledger frame: a run never adds, removes or reorders records and      *)
(* never changes a record's originalName or querySentence; parseInput adds   *)
(* one Pending record with empty result fields per non-blank input line at   *)
(* the end of the ledger, in input order, and leaves the others unchanged.   *)
C22_LedgerFrame ==
  /\ [][pc' # pc =>
          /\ Len(ports') = Len(ports)
          /\ \A k \in 1..Len(ports) :
               /\ ports'[k].originalName = ports[k].originalName
               /\ ports'[k].querySentence = ports[k].querySentence]_vars
  /\ [][\A raw \in InputTexts :
          ParseInput(raw) =>
            \A typed \in {NamesTyped(raw)} :
              /\ Len(ports') = Len(ports) + Len(typed)
              /\ Len(typed) >= 1
              /\ \A k \in 1..Len(ports) : ports'[k] = ports[k]
              /\ \A m \in 1..Len(typed) :
                   ports'[Len(ports) + m] =
                     [originalName |-> typed[m],
                      querySentence |-> typed[m] \o QuerySuffix,
                      portCode |-> "", chineseName |-> "", countryName |-> "",
                      remarks |-> "", status |-> "pending", sources |-> << >>]]_vars

\* a record typed as "a" was completed from the oracle's entry for "A" and
\* kept its name and query; five records were appended behind it afterwards
C22_Witness ==
  /\ pc = "idle"
  /\ appends = 2
  /\ Len(ports) = 1 + 1 + MaxFill
  /\ ports[1].status = "completed"
  /\ ports[1].originalName = "a"
  /\ ports[1].querySentence = "a" \o QuerySuffix
  /\ ports[1].portCode = Entry("A").portCode
  /\ ports[Len(ports)].originalName = Filler
  /\ ports[Len(ports)].status = "pending"

====
